---- MODULE Spec2Model ----
(***************************************************************************)
(* Model of bin/build-css-bundles.py: the CSS bundler of vk-booking-manager.*)
(*                                                                         *)
(* A text is a sequence of atoms.  An atom is one character ("/", "*",     *)
(* " ", ";", ...) or one run of characters that no pattern of the script   *)
(* can split: the literals "@import" and "url(" of the import pattern, and *)
(* a marker word standing for ordinary rule text.  The regular expressions *)
(* of the script are translated atom by atom, with Python's re.sub         *)
(* semantics: leftmost match, non-overlapping, scanning left to right.     *)
(***************************************************************************)
EXTENDS Integers, Sequences, FiniteSets, TLC

\* ------------------------------------------------------------------ text

\* The characters \s matches, among the atoms of the model.
WS == {" ", "\n", "\t"}

\* The character class [{}:;,] of line 59.
Punct == {"{", "}", ":", ";", ","}

\* Least element of a non-empty set of integers.
Min(S) == CHOOSE x \in S : \A y \in S : x <= y

\* First index >= i of css that holds no whitespace (Len(css) + 1 if none).
RECURSIVE SkipWs(_, _)
SkipWs(css, i) ==
    IF i <= Len(css) /\ css[i] \in WS THEN SkipWs(css, i + 1) ELSE i

\* Last index <= i of css that holds no whitespace (0 if none).
RECURSIVE SkipWsBack(_, _)
SkipWsBack(css, i) ==
    IF i >= 1 /\ css[i] \in WS THEN SkipWsBack(css, i - 1) ELSE i

\* Does the two-character marker a b start at index i ?
MarkerAt(css, i, a, b) ==
    i >= 1 /\ i + 1 <= Len(css) /\ css[i] = a /\ css[i + 1] = b

\* The pattern /\*.*?\*/ with re.S, tried at index i: the index of the last
\* atom of the match (the "/" of the nearest close marker), or 0 for no match.
CommentEnd(css, i) ==
    IF MarkerAt(css, i, "/", "*")
    THEN LET closes == {j \in (i + 2)..Len(css) : MarkerAt(css, j, "*", "/")}
         IN  IF closes = {} THEN 0 ELSE Min(closes) + 1
    ELSE 0

\* re.sub with an empty replacement, from index i on: the text up to the
\* leftmost match is kept, the match is dropped, and the scan goes on behind it.
RECURSIVE StripCommentsFrom(_, _)
StripCommentsFrom(css, i) ==
    LET starts == {j \in i..Len(css) : CommentEnd(css, j) > 0}
    IN  IF starts = {} THEN SubSeq(css, i, Len(css))
        ELSE LET m == Min(starts)
             IN  SubSeq(css, i, m - 1)
                     \o StripCommentsFrom(css, CommentEnd(css, m) + 1)

\* Line 52: re.sub(r"/\*.*?\*/", "", css, flags=re.S)
strip_comments(css) == StripCommentsFrom(css, 1)

\* The pattern @import\s+url\([^)]+\);\s* tried at index i: the index of the
\* last atom of the match, or 0 for no match.  [^)]+ runs up to the first ")"
\* and must take at least one atom.
ImportEnd(css, i) ==
    IF css[i] # "@import" THEN 0
    ELSE LET u == SkipWs(css, i + 1)
         IN  IF u = i + 1 \/ u > Len(css) \/ css[u] # "url(" THEN 0
             ELSE LET closes == {j \in (u + 1)..Len(css) : css[j] = ")"}
                      p == IF closes = {} THEN 0 ELSE Min(closes)
                  IN  IF p > u + 1 /\ p + 1 <= Len(css) /\ css[p + 1] = ";"
                      THEN SkipWs(css, p + 2) - 1
                      ELSE 0

RECURSIVE StripImportsFrom(_, _)
StripImportsFrom(css, i) ==
    LET starts == {j \in i..Len(css) : ImportEnd(css, j) > 0}
    IN  IF starts = {} THEN SubSeq(css, i, Len(css))
        ELSE LET m == Min(starts)
             IN  SubSeq(css, i, m - 1)
                     \o StripImportsFrom(css, ImportEnd(css, m) + 1)

\* Line 57: re.sub(r"@import\s+url\([^)]+\);\s*", "", css)
strip_imports(css) == StripImportsFrom(css, 1)

\* The atoms of a sequence of one-atom and empty texts, in order.
NonEmpty(t) == t # <<>>
Flatten(marked) ==
    LET kept == SelectSeq(marked, NonEmpty)
    IN  [k \in 1..Len(kept) |-> kept[k][1]]

\* Line 58: re.sub(r"\s+", " ", css): every maximal run of whitespace is one
\* match; its first atom becomes the space and the others go.
collapse_whitespace(css) ==
    Flatten([i \in 1..Len(css) |->
        IF css[i] \notin WS THEN <<css[i]>>
        ELSE IF i > 1 /\ css[i - 1] \in WS THEN <<>>
        ELSE <<" ">>])

\* The same with the pattern \s*([{}:;,]): the whitespace behind stays.
tighten_punctuation_LeadingOnly(css) ==
    Flatten([i \in 1..Len(css) |->
        IF css[i] \notin WS THEN <<css[i]>>
        ELSE LET behind == SkipWs(css, i)
             IN  IF behind <= Len(css) /\ css[behind] \in Punct
                 THEN <<>>
                 ELSE <<css[i]>>])

\* Line 59: re.sub(r"\s*([{}:;,])\s*", r"\1", css): a match takes one
\* punctuation character with the whole whitespace run before it and the
\* whole run behind it, so a whitespace atom goes exactly when the nearest
\* other atom before it or behind it is punctuation.
tighten_punctuation(css) ==
    Flatten([i \in 1..Len(css) |->
        IF css[i] \notin WS THEN <<css[i]>>
        ELSE LET before == SkipWsBack(css, i)
                 behind == SkipWs(css, i)
             IN  IF \/ before >= 1 /\ css[before] \in Punct
                    \/ behind <= Len(css) /\ css[behind] \in Punct
                 THEN <<>>
                 ELSE <<css[i]>>])

\* Line 60: str.strip()
strip(css) == SubSeq(css, SkipWs(css, 1), SkipWsBack(css, Len(css)))

\* normalize, lines 55-60.
normalize(css) ==
    strip(tighten_punctuation(collapse_whitespace(strip_imports(strip_comments(css)))))

\* ------------------------------------------------------------- manifest

\* SOURCE_DIR and OUTPUT_DIR, relative to ROOT.
SOURCE_DIR == <<"assets", "scss">>
OUTPUT_DIR == <<"build", "assets", "css">>

\* The manifest, in the insertion order of the dict (the order items() yields).
BUNDLES == <<
    [output_name |-> "vkbm-frontend.min.css",
     sources |-> <<"variables.scss", "common.scss">>],
    [output_name |-> "vkbm-auth.min.css",
     sources |-> <<"variables.scss", "buttons.scss", "alert.scss",
                   "auth-forms.scss">>],
    [output_name |-> "vkbm-editor.min.css",
     sources |-> <<"variables.scss", "utility.scss", "buttons.scss",
                   "alert.scss", "auth-forms.scss",
                   "admin-editor-fixes.scss", "common.scss">>],
    [output_name |-> "vkbm-admin.min.css",
     sources |-> <<"variables.scss", "utility.scss", "buttons.scss",
                   "admin-notice.scss", "admin-table.scss",
                   "admin-schedule.scss", "admin-provider-settings.scss",
                   "admin-shift-editor.scss", "admin-shift-bulk-create.scss",
                   "admin-shift-dashboard.scss",
                   "admin-service-menu-quick-edit.scss",
                   "admin-post-order.scss", "admin-term-order.scss",
                   "admin-style-guide.scss", "admin-core.scss",
                   "common.scss">>] >>

Range(seq) == {seq[i] : i \in 1..Len(seq)}

OutputNames == {BUNDLES[k].output_name : k \in 1..Len(BUNDLES)}

SourceNames == UNION {Range(BUNDLES[k].sources) : k \in 1..Len(BUNDLES)}

\* ----------------------------------------------------------- file system

\* A path of the file system holds no file, or a file with its text.
Absent == [exists |-> FALSE, text |-> <<>>]
File(text) == [exists |-> TRUE, text |-> text]

\* Two texts a source file may hold.  The file's name stands for its rule
\* text, so that each source leaves a mark of its own in the bundle.  The
\* second text closes a comment it never opened and opens one it never
\* closes, so that comments can span the seam between two sources.
PlainText(f) == <<f, " ", "{", " ", "}", "\n">>
SeamText(f) == <<"*", "/", f, " ", ";", "/", "*", f>>
SourceTexts(f) == {PlainText(f), SeamText(f)}

\* The sources the developer touches between runs: the first source of every
\* bundle, the last source of three, one from the middle of three, and two
\* that a single bundle lists.
EditedSources == {"variables.scss", "common.scss", "buttons.scss",
                  "admin-editor-fixes.scss", "admin-core.scss"}

\* What an output directory left by some earlier tool may hold.
StaleText == <<"stale", "\n">>

\* ------------------------------------------------------------------ state

VARIABLES
    sources,        \* SOURCE_DIR: source name -> Absent or File(text)
    output_dir,     \* does OUTPUT_DIR exist
    artifacts,      \* OUTPUT_DIR: output name -> Absent or File(text)
    pc,             \* "idle" (never run), "running", "exited"
    bi,             \* main: index of the bundle of the outer loop
    si,             \* main: index of the source of the inner loop
    parts,          \* main: the list parts
    exit_code,      \* exit status of the last run (read when pc = "exited")
    message,        \* what the last run printed on stderr
    runs,           \* number of runs started
    edits,          \* number of edits of the source directory so far
    written,        \* history: output name -> writes of it in this run
    log,            \* history: the file system events of this run
    start_artifacts, \* history: artifacts when this run started
    run_sources,    \* history: sources when this run started
    prev_sources,   \* history: sources when the run before started
    css,            \* normalize: the text it is applied to
    results         \* normalize: results of its successive applications

buildVars == <<sources, output_dir, artifacts, pc, bi, si, parts, exit_code,
               message, runs, edits, written, log, start_artifacts,
               run_sources, prev_sources>>
normVars == <<css, results>>
vars == <<buildVars, normVars>>

\* Bounds of the model.
MaxRuns == 2
MaxEdits == 2
MaxPieces == 4

\* ------------------------------------------------------------------- main

\* "\n".join(parts)
RECURSIVE join(_, _)
join(sep, list) ==
    IF list = <<>> THEN <<>>
    ELSE IF Len(list) = 1 THEN list[1]
    ELSE list[1] \o sep \o join(sep, Tail(list))

\* Each part normalized on its own, then joined.
bundled_EachSource(list) ==
    join(<<"\n">>, [i \in 1..Len(list) |-> normalize(list[i])])

\* Line 72: bundled = normalize("\n".join(parts))
bundled(list) == normalize(join(<<"\n">>, list))

\* The file opened for appending.
write_text_Append(old, data) == File(old.text \o data)

\* Line 73, Path.write_text: open for writing (truncating), write data, close.
write_text(old, data) == File(data)

\* The bare name of the source.
SourcePath_NameOnly(source) == <<source>>

\* Line 68: SOURCE_DIR / source
SourcePath(source) == Append(SOURCE_DIR, source)

\* Line 69: path.exists()
exists(source) == sources[source].exists

Idle == pc \in {"idle", "exited"}

\* A run of the script starts: line 64, then the first iteration begins.
Start ==
    /\ Idle
    /\ runs < MaxRuns
    /\ output_dir' = TRUE
    /\ pc' = "running"
    /\ bi' = 1
    /\ si' = 1
    /\ parts' = <<>>
    /\ exit_code' = 0
    /\ message' = <<>>
    /\ runs' = runs + 1
    /\ written' = [n \in OutputNames |-> 0]
    /\ log' = <<>>
    /\ start_artifacts' = artifacts
    /\ run_sources' = sources
    /\ prev_sources' = run_sources
    /\ UNCHANGED <<sources, artifacts, edits, normVars>>

\* The outer loop stopping one bundle early.
OuterLoopOver_SkipsLast == bi >= Len(BUNDLES)

\* Has the outer loop (line 65) gone through every bundle ?
OuterLoopOver == bi > Len(BUNDLES)

InBundle == pc = "running" /\ ~OuterLoopOver

\* The inner loop stopping one source early.
InnerLoopOver_SkipsLast == si >= Len(BUNDLES[bi].sources)

\* Has the inner loop (line 67) gone through every source of the bundle ?
InnerLoopOver == si > Len(BUNDLES[bi].sources)

\* Lines 67-71 for a source that exists: check, read, append.
ReadSource ==
    /\ InBundle
    /\ ~InnerLoopOver
    /\ LET source == BUNDLES[bi].sources[si]
       IN  /\ exists(source)
           /\ parts' = Append(parts, sources[source].text)
           /\ log' = log \o <<<<"check", source>>, <<"read", source>>>>
    /\ si' = si + 1
    /\ UNCHANGED <<sources, output_dir, artifacts, pc, bi, exit_code, message,
                   runs, edits, written, start_artifacts, run_sources,
                   prev_sources, normVars>>

\* The same, but what was read so far is written out before the exit.
MissingSource_Flush ==
    /\ InBundle
    /\ ~InnerLoopOver
    /\ LET source == BUNDLES[bi].sources[si]
           output_name == BUNDLES[bi].output_name
       IN  /\ ~exists(source)
           /\ message' = <<"Missing source: ", SourcePath(source)>>
           /\ log' = Append(log, <<"check", source>>)
           /\ artifacts' = [artifacts EXCEPT ![output_name] =
                   write_text(@, bundled(parts) \o <<"\n">>)]
           /\ written' = [written EXCEPT ![output_name] = @ + 1]
    /\ exit_code' = 1
    /\ pc' = "exited"
    /\ UNCHANGED <<sources, output_dir, bi, si, parts, runs, edits,
                   start_artifacts, run_sources, prev_sources, normVars>>

\* Lines 67-70 for a source that does not exist: raise SystemExit(message),
\* which nothing catches: the message goes to stderr and the status is 1.
MissingSource ==
    /\ InBundle
    /\ ~InnerLoopOver
    /\ LET source == BUNDLES[bi].sources[si]
       IN  /\ ~exists(source)
           /\ message' = <<"Missing source: ", SourcePath(source)>>
           /\ log' = Append(log, <<"check", source>>)
    /\ exit_code' = 1
    /\ pc' = "exited"
    /\ UNCHANGED <<sources, output_dir, artifacts, bi, si, parts, runs, edits,
                   written, start_artifacts, run_sources, prev_sources,
                   normVars>>

\* Lines 72-73, once the inner loop is over; then the next iteration begins.
WriteBundle ==
    /\ InBundle
    /\ InnerLoopOver
    /\ output_dir
    /\ LET output_name == BUNDLES[bi].output_name
       IN  /\ artifacts' = [artifacts EXCEPT ![output_name] =
                   write_text(@, bundled(parts) \o <<"\n">>)]
           /\ written' = [written EXCEPT ![output_name] = @ + 1]
           /\ log' = Append(log, <<"write", output_name>>)
    /\ bi' = bi + 1
    /\ si' = 1
    /\ parts' = <<>>
    /\ UNCHANGED <<sources, output_dir, pc, exit_code, message, runs, edits,
                   start_artifacts, run_sources, prev_sources, normVars>>

\* The outer loop is over: main returns and the process exits with status 0.
Return ==
    /\ pc = "running"
    /\ OuterLoopOver
    /\ pc' = "exited"
    /\ exit_code' = 0
    /\ UNCHANGED <<sources, output_dir, artifacts, bi, si, parts, message,
                   runs, edits, written, log, start_artifacts, run_sources,
                   prev_sources, normVars>>

\* The developer, between two runs: deletes a source file ...
RemoveSource(f) ==
    /\ Idle
    /\ edits < MaxEdits
    /\ sources[f].exists
    /\ sources' = [sources EXCEPT ![f] = Absent]
    /\ edits' = edits + 1
    /\ UNCHANGED <<output_dir, artifacts, pc, bi, si, parts, exit_code,
                   message, runs, written, log, start_artifacts, run_sources,
                   prev_sources, normVars>>

\* ... or saves one, new or changed.
SaveSource(f, text) ==
    /\ Idle
    /\ edits < MaxEdits
    /\ sources[f] # File(text)
    /\ sources' = [sources EXCEPT ![f] = File(text)]
    /\ edits' = edits + 1
    /\ UNCHANGED <<output_dir, artifacts, pc, bi, si, parts, exit_code,
                   message, runs, written, log, start_artifacts, run_sources,
                   prev_sources, normVars>>

\* A checkout of the repository: every source of the manifest is there; the
\* output directory is not, or some earlier build left it behind.
BuildInit ==
    /\ sources = [f \in SourceNames |-> File(PlainText(f))]
    /\ output_dir \in BOOLEAN
    /\ artifacts = [n \in OutputNames |->
                      IF output_dir THEN File(StaleText) ELSE Absent]
    /\ pc = "idle"
    /\ bi = 1
    /\ si = 1
    /\ parts = <<>>
    /\ exit_code = 0
    /\ message = <<>>
    /\ runs = 0
    /\ edits = 0
    /\ written = [n \in OutputNames |-> 0]
    /\ log = <<>>
    /\ start_artifacts = artifacts
    /\ run_sources = sources
    /\ prev_sources = sources

Init ==
    /\ BuildInit
    /\ css = <<>>
    /\ results = <<>>

Next ==
    \/ Start
    \/ ReadSource
    \/ MissingSource
    \/ WriteBundle
    \/ Return
    \/ \E f \in EditedSources : RemoveSource(f)
    \/ \E f \in EditedSources : \E text \in SourceTexts(f) : SaveSource(f, text)

Spec == Init /\ [][Next]_vars

\* The state in which WriteBundle can be taken (ENABLED WriteBundle,
\* written out).
CanWrite == InBundle /\ InnerLoopOver /\ output_dir

\* The script is one sequential process that nothing suspends: a run in
\* progress takes its next step.  For WriteBundle the weak fairness condition
\* is spelled out, with CanWrite for ENABLED <<WriteBundle>>_vars.
FairSpec ==
    /\ Spec
    /\ WF_vars(ReadSource \/ MissingSource \/ Return)
    /\ (<>[]CanWrite => []<><<WriteBundle>>_vars)

\* ------------------------------------------------- normalize on its own

\* The texts normalize is applied to: up to MaxPieces pieces, end to end.
Pieces == {
    <<"/">>, <<"*">>, <<"*", "/">>,
    <<"/", "*", "a", "*", "/">>,
    <<" ">>, <<"\n">>, <<";">>, <<"{">>, <<"a">>,
    <<"@import", " ", "url(", "a", ")">> }

RECURSIVE Concat(_)
Concat(list) == IF list = <<>> THEN <<>> ELSE list[1] \o Concat(Tail(list))

NormInit ==
    /\ BuildInit
    /\ ~output_dir
    /\ \E n \in 0..MaxPieces : \E list \in [1..n -> Pieces] :
           css = Concat(list)
    /\ results = <<>>

\* normalize(css)
NormalizeInput ==
    /\ results = <<>>
    /\ results' = <<normalize(css)>>
    /\ UNCHANGED <<css, buildVars>>

\* normalize applied to the text it returned
NormalizeAgain ==
    /\ Len(results) = 1
    /\ results' = Append(results, normalize(results[1]))
    /\ UNCHANGED <<css, buildVars>>

NormNext == NormalizeInput \/ NormalizeAgain

NormSpec == NormInit /\ [][NormNext]_vars

\* ------------------------------------------------ what the claims speak of

\* The bundles that list a source fs does not hold, and the first of them.
MissingIn(fs, k) ==
    {i \in 1..Len(BUNDLES[k].sources) : ~fs[BUNDLES[k].sources[i]].exists}
BadBundles(fs) == {k \in 1..Len(BUNDLES) : MissingIn(fs, k) # {}}
FirstBad(fs) == Min(BadBundles(fs))

\* The first missing source in iteration order: bundles in manifest order,
\* sources in listed order.
FirstMissingSource(fs) ==
    BUNDLES[FirstBad(fs)].sources[Min(MissingIn(fs, FirstBad(fs)))]

\* The raw texts of the first n sources of a list, a newline between two.
RECURSIVE RawConcat(_, _, _)
RawConcat(fs, srcs, n) ==
    IF n = 0 THEN <<>>
    ELSE IF n = 1 THEN fs[srcs[1]].text
    ELSE RawConcat(fs, srcs, n - 1) \o <<"\n">> \o fs[srcs[n]].text

\* What bundle k must hold when built from the sources fs.
ExpectedText(fs, k) ==
    normalize(RawConcat(fs, BUNDLES[k].sources, Len(BUNDLES[k].sources)))
        \o <<"\n">>

\* Position of a source in a source list.
IndexIn(srcs, f) == Min({i \in 1..Len(srcs) : srcs[i] = f})

\* No mark of a later-listed source stands before a mark of an earlier one.
OrderKept(text, srcs) ==
    \A p \in 1..Len(text) : \A q \in (p + 1)..Len(text) :
        (text[p] \in Range(srcs) /\ text[q] \in Range(srcs))
            => IndexIn(srcs, text[p]) <= IndexIn(srcs, text[q])

\* The text ends with one newline and no other whitespace before it.
OneTrailingNewline(text) ==
    /\ text # <<>>
    /\ text[Len(text)] = "\n"
    /\ Len(text) > 1 => text[Len(text) - 1] \notin WS

IsPrefix(a, b) == Len(a) <= Len(b) /\ a = SubSeq(b, 1, Len(a))

\* The events of a complete run: per bundle, each source checked then read,
\* in listed order, then the bundle written.
RECURSIVE SourceEvents(_, _)
SourceEvents(srcs, n) ==
    IF n = 0 THEN <<>>
    ELSE SourceEvents(srcs, n - 1)
             \o <<<<"check", srcs[n]>>, <<"read", srcs[n]>>>>
RECURSIVE Schedule(_)
Schedule(k) ==
    IF k = 0 THEN <<>>
    ELSE Schedule(k - 1)
             \o SourceEvents(BUNDLES[k].sources, Len(BUNDLES[k].sources))
             \o <<<<"write", BUNDLES[k].output_name>>>>
FullSchedule == Schedule(Len(BUNDLES))

\* A text holds a block comment: an open marker with a close marker behind it.
HasComment(text) ==
    \E i \in 1..Len(text) : \E j \in (i + 2)..Len(text) :
        MarkerAt(text, i, "/", "*") /\ MarkerAt(text, j, "*", "/")

\* A text holds an @import url(...) statement.
HasImport(text) ==
    \E i \in 1..Len(text) : \E u \in (i + 2)..Len(text) :
        /\ text[i] = "@import"
        /\ \A j \in (i + 1)..(u - 1) : text[j] \in WS
        /\ text[u] = "url("
        /\ \E p \in (u + 2)..(Len(text) - 1) :
              /\ \A j \in (u + 1)..(p - 1) : text[j] # ")"
              /\ text[p] = ")"
              /\ text[p + 1] = ";"

\* The whitespace canonical form.
Canonical(text) ==
    /\ text # <<>> => (text[1] \notin WS /\ text[Len(text)] \notin WS)
    /\ \A i \in 1..Len(text) : text[i] \in WS => text[i] = " "
    /\ \A i \in 1..(Len(text) - 1) : ~(text[i] = " " /\ text[i + 1] = " ")
    /\ \A i \in 1..Len(text) : text[i] \in Punct =>
          /\ i > 1 => text[i - 1] \notin WS
          /\ i < Len(text) => text[i + 1] \notin WS

\* a ,  b   {  color : red ;  }
WhitespaceExample ==
    <<"a", " ", ",", " ", " ", "b", " ", " ", " ", "{", " ", " ", "color",
      " ", ":", " ", "red", " ", ";", " ", " ", "}">>

\* ----------------------------------------------------------------- claims

\* C1: when every source of the manifest exists, the run ends with exit code
\* 0 and has written every manifest key, and nothing else, exactly once.
C1_AllBundlesWritten ==
    (pc = "exited" /\ BadBundles(run_sources) = {}) =>
        /\ exit_code = 0
        /\ {n \in DOMAIN written : written[n] > 0} = OutputNames
        /\ \A n \in OutputNames : written[n] = 1 /\ artifacts[n].exists

C1_Witness ==
    /\ pc = "exited"
    /\ BadBundles(run_sources) = {}
    /\ \A n \in OutputNames : written[n] = 1
    /\ \E f \in SourceNames : run_sources[f].text = SeamText(f)

\* C2: when a source is missing, the first bundle that lists a missing source
\* and every later bundle are never written in this run and keep what they
\* held when the run started; once the run has ended, every earlier bundle
\* has been written once, holds its full correct content and stays on disk.
C2_AbortBeforeWrite ==
    (pc # "idle" /\ BadBundles(run_sources) # {}) =>
        /\ \A k \in FirstBad(run_sources)..Len(BUNDLES) :
              /\ written[BUNDLES[k].output_name] = 0
              /\ artifacts[BUNDLES[k].output_name]
                     = start_artifacts[BUNDLES[k].output_name]
        /\ pc = "exited" =>
              /\ exit_code # 0
              /\ \A k \in 1..(FirstBad(run_sources) - 1) :
                    /\ written[BUNDLES[k].output_name] = 1
                    /\ artifacts[BUNDLES[k].output_name]
                           = File(ExpectedText(run_sources, k))

C2_Witness ==
    /\ pc = "exited"
    /\ exit_code = 1
    /\ FirstBad(run_sources) = 3
    /\ si > 1
    /\ written["vkbm-auth.min.css"] = 1
    /\ artifacts["vkbm-editor.min.css"] = File(StaleText)

\* C3: a run that meets a missing source ends with a non-zero exit status and
\* a message naming the path of the first missing source in iteration order;
\* a run ends with exit code 0 only if no source was missing.
C3_ErrorNamesFirstMissing ==
    pc = "exited" =>
        /\ BadBundles(run_sources) # {} =>
              /\ exit_code # 0
              /\ Len(message) = 2
              /\ message[2] = SOURCE_DIR \o <<FirstMissingSource(run_sources)>>
        /\ exit_code = 0 => BadBundles(run_sources) = {}

C3_Witness ==
    /\ pc = "exited"
    /\ exit_code = 1
    /\ Cardinality({f \in SourceNames : ~run_sources[f].exists}) = 2
    /\ message = <<"Missing source: ", <<"assets", "scss", "buttons.scss">>>>

\* C4: every bundle written in a run holds, when the run has ended, normalize of the raw texts of
\* its sources, joined in listed order with one newline between two, then one
\* trailing newline; so no text of a later source comes before text of an
\* earlier one.
C4_ContentOfBundle ==
    pc = "exited" =>
        \A k \in 1..Len(BUNDLES) :
            written[BUNDLES[k].output_name] > 0 =>
                LET art == artifacts[BUNDLES[k].output_name]
                IN  /\ art = File(ExpectedText(run_sources, k))
                    /\ OneTrailingNewline(art.text)
                    /\ OrderKept(art.text, BUNDLES[k].sources)

C4_Witness ==
    /\ pc = "exited"
    /\ exit_code = 0
    /\ run_sources["buttons.scss"].text = SeamText("buttons.scss")
    /\ run_sources["common.scss"].text = SeamText("common.scss")
    /\ written["vkbm-editor.min.css"] = 1
    /\ "buttons.scss" \in Range(artifacts["vkbm-editor.min.css"].text)
    /\ "alert.scss" \notin Range(artifacts["vkbm-editor.min.css"].text)
    /\ "common.scss" \in Range(artifacts["vkbm-editor.min.css"].text)

\* C5: a run that started from the same sources as the run before it leaves
\* every artifact as that run left it, and a complete run has written every
\* artifact once, whatever was there.
C5_BuildIdempotent ==
    (pc = "exited" /\ runs >= 2 /\ run_sources = prev_sources) =>
        /\ artifacts = start_artifacts
        /\ exit_code = 0 => \A n \in OutputNames : written[n] = 1

C5_Witness ==
    /\ pc = "exited"
    /\ runs = 2
    /\ edits > 0
    /\ run_sources = prev_sources
    /\ exit_code = 0
    /\ \A n \in OutputNames : written[n] = 1 /\ artifacts[n] # File(StaleText)

\* C6: the result of normalize holds no block comment.
C6_NoCommentLeft ==
    Len(results) >= 1 => ~HasComment(results[1])

\* C7: the result of normalize holds no @import url(...) statement.
C7_NoImportLeft ==
    Len(results) >= 1 => ~HasImport(results[1])

\* C8: the result of normalize is in whitespace canonical form: no leading or
\* trailing whitespace, no whitespace but single spaces, none next to
\* { } : ; , and the example of the specification comes out as a,b{color:red;}
C8_WhitespaceCanonical ==
    /\ Len(results) >= 1 => Canonical(results[1])
    /\ normalize(WhitespaceExample)
           = <<"a", ",", "b", "{", "color", ":", "red", ";", "}">>

C8_Witness ==
    /\ css = <<"a", "\n", ";", " ">>
    /\ results = <<<<"a", ";">>>>

\* C9: the events of a run are a prefix of the complete schedule (bundles in
\* manifest order; per bundle every source checked then read in listed order,
\* then the write); a run that exits with 0 has gone through all of it, one
\* that aborts stops at the check of the first missing source; and every run
\* ends.
C9_OrderOk ==
    pc # "idle" =>
        /\ IsPrefix(log, FullSchedule)
        /\ (pc = "exited" /\ exit_code = 0) => log = FullSchedule
        /\ (pc = "exited" /\ exit_code # 0) =>
              /\ BadBundles(run_sources) # {}
              /\ log[Len(log)] = <<"check", FirstMissingSource(run_sources)>>

C9_OrderAndTermination ==
    /\ []C9_OrderOk
    /\ (pc = "running") ~> (pc = "exited")

C9_Witness ==
    /\ pc = "exited"
    /\ exit_code = 1
    /\ written["vkbm-frontend.min.css"] = 1
    /\ log[Len(log)] = <<"check", "admin-core.scss">>

\* C10: normalize is idempotent: applied to its own result it changes nothing.
C10_NormalizeIdempotent ==
    Len(results) = 2 => results[2] = results[1]

====
